---- MODULE Spec2Model ----
(***************************************************************************)
(* adventuregame: the turn state machine of AdventureGameMaster and the    *)
(* episode scoring of AdventureGameScorer (games/adventuregame/master.py). *)
(*                                                                         *)
(* One episode: setup binds the game instance, the play loop of the        *)
(* DialogueGameMaster base class prompts the player, validates and parses  *)
(* the response, hands the command to the IF interpreter and re-evaluates  *)
(* _does_game_proceed; after the loop the game_result record is logged and *)
(* compute_scores reads the recorded interactions.                         *)
(*                                                                         *)
(* The player and the IF interpreter are collaborators: their answers are  *)
(* nondeterministic choices from bounded sets.                             *)
(***************************************************************************)
EXTENDS Integers, Sequences, FiniteSets, TLC

VARIABLES
    pc,             \* position of the play loop
    game_instance,  \* self.game_instance
    if_variant,     \* self.if_variant
    goals_required, \* self.goals_required
    goals_achieved, \* self.goals_achieved
    turns,          \* self.turns
    success,        \* self.success
    invalid_format, \* self.invalid_format
    finished,       \* self.finished
    last_message,   \* self.messages_by_names[player][-1]
    response,       \* the player's raw response awaiting validation
    interactions,   \* the recorded interactions: turns of events, plus keys
    current_turn,   \* self.current_turn
    if_result,      \* what the last process_action call returned
    if_calls,       \* number of process_action calls made so far
    scores,         \* what compute_scores logged for the finished episode
    players,        \* the players registered with add_player
    plan_history,   \* self.plan_history
    exception,      \* the exception that ended the episode, "" if none
    proceed_calls,  \* number of _does_game_proceed calls made so far
    backend_call    \* a generate_response call of a model backend

vars == <<pc, game_instance, if_variant, goals_required, goals_achieved, turns,
          success, invalid_format, finished, last_message, response,
          interactions, current_turn, if_result, if_calls, scores, players,
          plan_history, exception, proceed_calls, backend_call>>

----------------------------------------------------------------------------
(* Bounds of the model *)

\* largest turn budget of an enumerated game instance
MaxTurnsBound == 2
\* largest number of tokens in a player response
MaxLen == 2
\* largest context size, prompt size and generation budget of a backend call
MaxTokens == 3

\* goal-state identifiers of the enumerated game instances
GoalIds == {"g1", "g2"}

\* A response is a sequence of tokens. ">" is the command tag, "a" stands for
\* any other text (the game master looks for nothing else in a response: the
\* command line it cuts out goes to the interpreter, whose answers are drawn
\* freely), and NextActionsTag for the literal substring "\nNext actions:".
NextActionsTag == "\nNext actions:"
Tokens == {">", "a", NextActionsTag}

RECURSIVE SeqsUpTo(_, _)
SeqsUpTo(S, n) ==
    IF n = 0 THEN {<<>>}
    ELSE LET shorter == SeqsUpTo(S, n - 1)
         IN shorter \cup {Append(s, x) : s \in {t \in shorter : Len(t) = n - 1}, x \in S}

Utterances == SeqsUpTo(Tokens, MaxLen)

\* game instances: goal_state is non-empty (one goal or both; which one of the
\* two makes no difference), max_turns is positive and optimal_turns is the
\* least possible or equal to max_turns
GameInstances ==
    {gi \in [variant : {"basic", "plan"}, goal_state : {{"g1"}, GoalIds},
             max_turns : 1..MaxTurnsBound, optimal_turns : 1..MaxTurnsBound] :
        gi.optimal_turns \in {1, gi.max_turns}}

NoInstance == [variant |-> "", goal_state |-> {}, max_turns |-> 0, optimal_turns |-> 0]

\* the interpreter's "no failure" report (falsy)
NoFail == [phase |-> "", fail_type |-> ""]
\* failure reports the interpreter is drawn from
FailReports ==
    {[phase |-> "parsing", fail_type |-> "undefined_action_verb"],
     [phase |-> "resolution", fail_type |-> "pre_state_mismatch"]}

NoResult == [goals |-> {}, fail |-> NoFail]
NoScores == [raised |-> "not_run", turn |-> <<>>, episode |-> <<>>]
NoMessage == [role |-> "", content |-> <<>>]
\* no backend was called
NoCall == [backend |-> "", outcome |-> ""]
\* a generate_response call that has not raised ContextExceededError
NoError == [tokens_used |-> 0, tokens_left |-> 0, context_size |-> 0]

\* the keys of the game instance that _on_setup reads
RequiredKeys == {"variant", "goal_state", "max_turns", "optimal_turns"}

\* game instances in which one of these keys is absent
IncompleteInstances ==
    {[k \in (DOMAIN gi) \ {missing} |-> gi[k]] : gi \in GameInstances, missing \in RequiredKeys}

----------------------------------------------------------------------------
(* Recording of interactions (GameRecorder of the clemgame framework) *)

\* an event as recorded: the scorer reads event["action"]
Event(type, content) == [action |-> [type |-> type, content |-> content]]

\* log_next_turn: open the next turn's list of events
log_next_turn(inter) == [inter EXCEPT !.turns = Append(@, <<>>)]

\* log_event: append events to the list of the current (last opened) turn
log_event(inter, events) ==
    [inter EXCEPT !.turns[Len(inter.turns)] = @ \o events]

\* log_to_self(type, value): a GM -> GM event of that type
log_to_self(type, value) == Event(type, value)

\* log_message_to_self(message): a GM -> GM event carrying a transcript text
log_message_to_self(message) == Event("metadata", message)

\* log_key(key, value): a top-level key of the interactions, outside the turns
log_key(inter, value) == [inter EXCEPT !.adventure_info = value]

----------------------------------------------------------------------------
(* AdventureGameMaster *)

startswith(utterance, token) == Len(utterance) >= 1 /\ utterance[1] = token

contains(utterance, token) == \E i \in 1..Len(utterance) : utterance[i] = token

\* _validate_player_response checking the plan section before the command tag
validate_player_response_plan_first(utterance) ==
    IF if_variant = "plan" /\ ~contains(utterance, NextActionsTag)
    THEN [ret |-> FALSE, success |-> FALSE, invalid_format |-> "next_actions_missing"]
    ELSE IF ~startswith(utterance, ">")
    THEN [ret |-> FALSE, success |-> FALSE, invalid_format |-> "command_tag_missing"]
    ELSE [ret |-> TRUE, success |-> success, invalid_format |-> invalid_format]

\* _validate_player_response: the return value and the fields it assigns
validate_player_response(utterance) ==
    IF ~startswith(utterance, ">")
    THEN [ret |-> FALSE, success |-> FALSE, invalid_format |-> "command_tag_missing"]
    ELSE IF if_variant = "plan" /\ ~contains(utterance, NextActionsTag)
    THEN [ret |-> FALSE, success |-> FALSE, invalid_format |-> "next_actions_missing"]
    ELSE [ret |-> TRUE, success |-> success, invalid_format |-> invalid_format]

\* the position of the first occurrence of token at or after position i, 0 if
\* there is none
RECURSIVE index_from(_, _, _)
index_from(utterance, token, i) ==
    IF i > Len(utterance) THEN 0
    ELSE IF utterance[i] = token THEN i
    ELSE index_from(utterance, token, i + 1)

\* utterance.split("\nNext actions:")[1] for an utterance that holds the tag:
\* the text between its first occurrence and the next one (or the end)
new_plan(utterance) ==
    LET first == index_from(utterance, NextActionsTag, 1)
        second == index_from(utterance, NextActionsTag, first + 1)
    IN SubSeq(utterance, first + 1, IF second = 0 THEN Len(utterance) ELSE second - 1)

\* _on_parse_response that keeps no history of plans
on_parse_response_no_history(utterance) ==
    [utterance |-> utterance, log |-> TRUE, plan_history |-> plan_history, raised |-> ""]

\* _on_parse_response: the utterance is returned unmodified, to be logged; in
\* the plan variant the plan is appended to the history, and [1] raises
\* IndexError when the utterance does not hold the tag
on_parse_response(utterance) ==
    IF if_variant = "plan"
    THEN IF ~contains(utterance, NextActionsTag)
         THEN [utterance |-> utterance, log |-> TRUE, plan_history |-> plan_history,
               raised |-> "IndexError"]
         ELSE [utterance |-> utterance, log |-> TRUE,
               plan_history |-> Append(plan_history, new_plan(utterance)), raised |-> ""]
    ELSE [utterance |-> utterance, log |-> TRUE, plan_history |-> plan_history,
          raised |-> ""]

\* _does_game_proceed comparing the goal sets with >= instead of ==
does_game_proceed_superset ==
    IF invalid_format # ""
    THEN [ret |-> FALSE, finished |-> finished,
          log |-> <<log_to_self("invalid_format", invalid_format)>>]
    ELSE IF goals_required \subseteq goals_achieved
    THEN [ret |-> FALSE, finished |-> TRUE,
          log |-> <<log_to_self("adventure_finished", goals_achieved)>>]
    ELSE IF Len(turns) >= game_instance.max_turns
    THEN [ret |-> FALSE, finished |-> finished,
          log |-> <<log_to_self("turn_limit_reached", game_instance.max_turns)>>]
    ELSE [ret |-> TRUE, finished |-> finished, log |-> <<>>]

\* _does_game_proceed without the check of self.invalid_format
does_game_proceed_no_format_check ==
    IF goals_achieved = goals_required
    THEN [ret |-> FALSE, finished |-> TRUE,
          log |-> <<log_to_self("adventure_finished", goals_achieved)>>]
    ELSE IF Len(turns) >= game_instance.max_turns
    THEN [ret |-> FALSE, finished |-> finished,
          log |-> <<log_to_self("turn_limit_reached", game_instance.max_turns)>>]
    ELSE [ret |-> TRUE, finished |-> finished, log |-> <<>>]

\* _does_game_proceed stopping one turn before the turn limit
does_game_proceed_limit_early ==
    IF invalid_format # ""
    THEN [ret |-> FALSE, finished |-> finished,
          log |-> <<log_to_self("invalid_format", invalid_format)>>]
    ELSE IF goals_achieved = goals_required
    THEN [ret |-> FALSE, finished |-> TRUE,
          log |-> <<log_to_self("adventure_finished", goals_achieved)>>]
    ELSE IF Len(turns) >= game_instance.max_turns - 1
    THEN [ret |-> FALSE, finished |-> finished,
          log |-> <<log_to_self("turn_limit_reached", game_instance.max_turns)>>]
    ELSE [ret |-> TRUE, finished |-> finished, log |-> <<>>]

\* _does_game_proceed comparing the turn count with > instead of >=
does_game_proceed_limit_late ==
    IF invalid_format # ""
    THEN [ret |-> FALSE, finished |-> finished,
          log |-> <<log_to_self("invalid_format", invalid_format)>>]
    ELSE IF goals_achieved = goals_required
    THEN [ret |-> FALSE, finished |-> TRUE,
          log |-> <<log_to_self("adventure_finished", goals_achieved)>>]
    ELSE IF Len(turns) > game_instance.max_turns
    THEN [ret |-> FALSE, finished |-> finished,
          log |-> <<log_to_self("turn_limit_reached", game_instance.max_turns)>>]
    ELSE [ret |-> TRUE, finished |-> finished, log |-> <<>>]

\* _does_game_proceed stopping for the achieved goals only on the evaluation
\* after the one that set self.finished
does_game_proceed_latching ==
    IF invalid_format # ""
    THEN [ret |-> FALSE, finished |-> finished,
          log |-> <<log_to_self("invalid_format", invalid_format)>>]
    ELSE IF goals_achieved = goals_required
    THEN [ret |-> ~finished, finished |-> TRUE,
          log |-> <<log_to_self("adventure_finished", goals_achieved)>>]
    ELSE IF Len(turns) >= game_instance.max_turns
    THEN [ret |-> FALSE, finished |-> finished,
          log |-> <<log_to_self("turn_limit_reached", game_instance.max_turns)>>]
    ELSE [ret |-> TRUE, finished |-> finished, log |-> <<>>]

\* _does_game_proceed stopping for the achieved goals without setting
\* self.finished
does_game_proceed_not_finishing ==
    IF invalid_format # ""
    THEN [ret |-> FALSE, finished |-> finished,
          log |-> <<log_to_self("invalid_format", invalid_format)>>]
    ELSE IF goals_achieved = goals_required
    THEN [ret |-> FALSE, finished |-> finished,
          log |-> <<log_to_self("adventure_finished", goals_achieved)>>]
    ELSE IF Len(turns) >= game_instance.max_turns
    THEN [ret |-> FALSE, finished |-> finished,
          log |-> <<log_to_self("turn_limit_reached", game_instance.max_turns)>>]
    ELSE [ret |-> TRUE, finished |-> finished, log |-> <<>>]

\* _does_game_proceed: the return value, the value of self.finished afterwards
\* and the events it logs
does_game_proceed ==
    IF invalid_format # ""
    THEN [ret |-> FALSE, finished |-> finished,
          log |-> <<log_to_self("invalid_format", invalid_format)>>]
    ELSE IF goals_achieved = goals_required
    THEN [ret |-> FALSE, finished |-> TRUE,
          log |-> <<log_to_self("adventure_finished", goals_achieved)>>]
    ELSE IF Len(turns) >= game_instance.max_turns
    THEN [ret |-> FALSE, finished |-> finished,
          log |-> <<log_to_self("turn_limit_reached", game_instance.max_turns)>>]
    ELSE [ret |-> TRUE, finished |-> finished, log |-> <<>>]

\* turn_score with the two counts swapped
turn_score_swapped(post_goal_count, prior_goal_count) == prior_goal_count - post_goal_count

\* turn_score = post_goal_count - prior_goal_count
turn_score(post_goal_count, prior_goal_count) == post_goal_count - prior_goal_count

\* the events of one interpreter step: action_fail if a failure was reported,
\* then goal_status
if_interaction_log(fail, new_goals, score) ==
    (IF fail # NoFail
     THEN <<log_to_self("action_fail", fail), log_message_to_self("action_fail")>>
     ELSE <<>>)
    \o <<log_to_self("goal_status",
                     [goal_states_achieved |-> new_goals, turn_goal_score |-> score]),
         log_message_to_self("goal_status")>>

Init ==
    /\ pc = "constructed"
    /\ game_instance = NoInstance
    /\ if_variant = ""
    /\ goals_required = {}
    /\ goals_achieved = {}
    /\ turns = <<>>
    /\ success = TRUE
    /\ invalid_format = ""
    /\ finished = FALSE
    /\ last_message = NoMessage
    /\ response = <<>>
    /\ interactions = [turns |-> <<>>, adventure_info |-> <<>>]
    /\ current_turn = 0
    /\ if_result = NoResult
    /\ if_calls = 0
    /\ scores = NoScores
    /\ players = <<>>
    /\ plan_history = <<>>
    /\ exception = ""
    /\ proceed_calls = 0
    /\ backend_call = NoCall

\* the adventure_info record of a game instance
adventure_info_of(gi) ==
    [variant |-> gi.variant, max_turns |-> gi.max_turns,
     optimal_turns |-> gi.optimal_turns, goal_count |-> Cardinality(gi.goal_state)]

\* the fields of self before _on_setup has assigned any of them
before_setup ==
    [raised |-> "", if_variant |-> if_variant, players |-> players,
     plan_history |-> plan_history, goals_required |-> goals_required,
     goals_achieved |-> goals_achieved, interactions |-> interactions]

\* _on_setup taking the achieved goals from the instance's goal_state
setup_goals_from_instance(gi) ==
    IF "variant" \notin DOMAIN gi THEN [before_setup EXCEPT !.raised = "KeyError"]
    ELSE LET with_player == [before_setup EXCEPT !.if_variant = gi.variant,
                                                 !.players = Append(@, "player"),
                                                 !.plan_history = <<>>]
         IN IF "goal_state" \notin DOMAIN gi THEN [with_player EXCEPT !.raised = "KeyError"]
            ELSE LET with_goals == [with_player EXCEPT !.goals_required = gi.goal_state,
                                                       !.goals_achieved = gi.goal_state]
                 IN IF "max_turns" \notin DOMAIN gi \/ "optimal_turns" \notin DOMAIN gi
                    THEN [with_goals EXCEPT !.raised = "KeyError"]
                    ELSE [with_goals EXCEPT
                            !.interactions = log_key(interactions, adventure_info_of(gi))]

\* the body of _on_setup, statement by statement: game_instance[key] raises
\* KeyError for an absent key, and what was assigned before stays assigned
setup(gi) ==
    IF "variant" \notin DOMAIN gi THEN [before_setup EXCEPT !.raised = "KeyError"]
    ELSE LET with_player == [before_setup EXCEPT !.if_variant = gi.variant,
                                                 !.players = Append(@, "player"),
                                                 !.plan_history = <<>>]
         IN IF "goal_state" \notin DOMAIN gi THEN [with_player EXCEPT !.raised = "KeyError"]
            ELSE LET with_goals == [with_player EXCEPT !.goals_required = gi.goal_state,
                                                       !.goals_achieved = {}]
                 IN IF "max_turns" \notin DOMAIN gi \/ "optimal_turns" \notin DOMAIN gi
                    THEN [with_goals EXCEPT !.raised = "KeyError"]
                    ELSE [with_goals EXCEPT
                            !.interactions = log_key(interactions, adventure_info_of(gi))]

\* _on_setup(**game_instance) for one game instance; an exception it raises
\* ends the episode before play is called
on_setup_with(gi) ==
    LET s == setup(gi) IN
        /\ game_instance' = gi
        /\ if_variant' = s.if_variant
        /\ players' = s.players
        /\ plan_history' = s.plan_history
        /\ goals_required' = s.goals_required
        /\ goals_achieved' = s.goals_achieved
        /\ interactions' = s.interactions
        /\ exception' = s.raised
        /\ pc' = IF s.raised = "" THEN "before_game" ELSE "setup_failed"
        /\ UNCHANGED <<turns, success, invalid_format, finished, last_message, response,
                       current_turn, if_result, if_calls, scores, proceed_calls,
                       backend_call>>

\* _on_setup(**game_instance) with a game instance that has every key
on_setup ==
    /\ pc = "constructed"
    /\ \E gi \in GameInstances : on_setup_with(gi)

\* _on_setup(**game_instance) with a game instance that lacks a key
on_setup_incomplete ==
    /\ pc = "constructed"
    /\ \E gi \in IncompleteInstances : on_setup_with(gi)

\* _on_before_game: the prompt and the initial room description go to the player
on_before_game ==
    /\ pc = "before_game"
    /\ last_message' = [role |-> "user", content |-> <<"prompt", "room_desc">>]
    /\ pc' = "loop_check"
    /\ UNCHANGED <<game_instance, if_variant, goals_required, goals_achieved, turns,
                   success, invalid_format, finished, response, interactions,
                   current_turn, if_result, if_calls, scores, players,
                   plan_history, exception, proceed_calls, backend_call>>

\* play: the loop condition; a turn is opened when the game proceeds
loop_check ==
    /\ pc = "loop_check"
    /\ LET p == does_game_proceed IN
        /\ finished' = p.finished
        /\ IF p.ret
           THEN /\ interactions' = log_next_turn(interactions)
                /\ pc' = "prompt"
           ELSE /\ interactions' = log_event(interactions, p.log)
                /\ pc' = "after_game"
    /\ proceed_calls' = proceed_calls + 1
    /\ UNCHANGED <<game_instance, if_variant, goals_required, goals_achieved, turns,
                   success, invalid_format, last_message, response, current_turn,
                   if_result, if_calls, scores, players, plan_history, exception,
                   backend_call>>

\* prompt: the blocking call of the player, which answers with some text
prompt ==
    /\ pc = "prompt"
    /\ \E utterance \in Utterances : response' = utterance
    /\ pc' = "validate"
    /\ UNCHANGED <<game_instance, if_variant, goals_required, goals_achieved, turns,
                   success, invalid_format, finished, last_message, interactions,
                   current_turn, if_result, if_calls, scores, players,
                   plan_history, exception, proceed_calls, backend_call>>

\* prompt, after the call: validate, parse and add the response to the history
validate_parse_and_add ==
    /\ pc = "validate"
    /\ LET v == validate_player_response(response)
           parsed == on_parse_response(response)
       IN /\ success' = v.success
          /\ invalid_format' = v.invalid_format
          /\ IF v.ret
             THEN /\ last_message' = [role |-> "assistant", content |-> parsed.utterance]
                  /\ plan_history' = parsed.plan_history
                  /\ exception' = parsed.raised
                  /\ pc' = IF parsed.raised = "" THEN "after_turn" ELSE "play_failed"
             ELSE /\ pc' = "after_turn"
                  /\ UNCHANGED <<last_message, plan_history, exception>>
    /\ response' = <<>>
    /\ UNCHANGED <<game_instance, if_variant, goals_required, goals_achieved, turns,
                   finished, interactions, current_turn, if_result, if_calls, scores,
                   players, proceed_calls, backend_call>>

\* _on_after_turn passing the last message to the interpreter without asking
\* whether the game still proceeds
on_after_turn_unguarded ==
    /\ pc = "after_turn"
    /\ \E new_goals \in SUBSET GoalIds, fail \in FailReports \cup {NoFail} :
        LET prior_goal_count == Cardinality(goals_achieved)
            post_goal_count == Cardinality(new_goals)
            score == turn_score(post_goal_count, prior_goal_count)
        IN /\ if_result' = [goals |-> new_goals, fail |-> fail]
           /\ if_calls' = if_calls + 1
           /\ goals_achieved' = new_goals
           /\ interactions' = log_event(interactions,
                                 if_interaction_log(fail, new_goals, score))
           /\ last_message' = [role |-> "user", content |-> <<"if_response">>]
           /\ turns' = Append(turns, success)
    /\ current_turn' = current_turn + 1
    /\ pc' = "loop_check"
    /\ UNCHANGED <<game_instance, if_variant, goals_required, success, invalid_format,
                   response, scores, finished, players,
                   plan_history, exception, proceed_calls, backend_call>>

\* _on_after_turn(turn_idx), and the advance of the turn counter after it
on_after_turn ==
    /\ pc = "after_turn"
    /\ LET p == does_game_proceed IN
        /\ finished' = p.finished
        /\ IF p.ret
           THEN \E new_goals \in SUBSET GoalIds, fail \in FailReports \cup {NoFail} :
                LET prior_goal_count == Cardinality(goals_achieved)
                    post_goal_count == Cardinality(new_goals)
                    score == turn_score(post_goal_count, prior_goal_count)
                IN /\ if_result' = [goals |-> new_goals, fail |-> fail]
                   /\ if_calls' = if_calls + 1
                   /\ goals_achieved' = new_goals
                   /\ interactions' = log_event(interactions,
                                         if_interaction_log(fail, new_goals, score))
                   /\ last_message' = [role |-> "user", content |-> <<"if_response">>]
                   /\ turns' = Append(turns, success)
           ELSE /\ interactions' = log_event(interactions, p.log)
                /\ UNCHANGED <<if_result, if_calls, goals_achieved, last_message, turns>>
    /\ proceed_calls' = proceed_calls + 1
    /\ current_turn' = current_turn + 1
    /\ pc' = "loop_check"
    /\ UNCHANGED <<game_instance, if_variant, goals_required, success, invalid_format,
                   response, scores, players, plan_history, exception, backend_call>>

\* _on_after_game reporting the required goals instead of the achieved ones
on_after_game_required ==
    /\ pc = "after_game"
    /\ interactions' = log_event(interactions,
           <<log_to_self("game_result",
                [goal_states_achieved |-> goals_required,
                 game_successfully_finished |-> finished])>>)
    /\ pc' = "done"
    /\ UNCHANGED <<game_instance, if_variant, goals_required, goals_achieved, turns,
                   success, invalid_format, finished, last_message, response,
                   current_turn, if_result, if_calls, scores, players,
                   plan_history, exception, proceed_calls, backend_call>>

\* _on_after_game
on_after_game ==
    /\ pc = "after_game"
    /\ interactions' = log_event(interactions,
           <<log_to_self("game_result",
                [goal_states_achieved |-> goals_achieved,
                 game_successfully_finished |-> finished])>>)
    /\ pc' = "done"
    /\ UNCHANGED <<game_instance, if_variant, goals_required, goals_achieved, turns,
                   success, invalid_format, finished, last_message, response,
                   current_turn, if_result, if_calls, scores, players,
                   plan_history, exception, proceed_calls, backend_call>>

----------------------------------------------------------------------------
(* AdventureGameScorer *)

\* names of the framework's standard metrics (clemgame.metrics)
METRIC_ABORTED == "Aborted"
METRIC_LOSE == "Lose"
METRIC_SUCCESS == "Success"
METRIC_REQUEST_COUNT == "Request Count"
METRIC_REQUEST_COUNT_PARSED == "Parsed Request Count"
METRIC_REQUEST_COUNT_VIOLATED == "Violated Request Count"
METRIC_REQUEST_SUCCESS == "Request Success Ratio"
BENCH_SCORE == "Main Score"

\* Score values are exact fractions num/den with den > 0; np.nan is 0/0.
Abs(n) == IF n < 0 THEN -n ELSE n

RECURSIVE Gcd(_, _)
Gcd(a, b) == IF b = 0 THEN a ELSE Gcd(b, a % b)

\* the fraction n/d in lowest terms, d # 0
Frac(n, d) ==
    LET g == Gcd(Abs(n), Abs(d))
        sgn == IF d < 0 THEN -1 ELSE 1
    IN [num |-> sgn * (n \div g), den |-> sgn * (d \div g)]

Num(n) == [num |-> n, den |-> 1]
NaN == [num |-> 0, den |-> 0]

\* a / b, a - b and a * b of fractions (b not zero for the division)
FracDiv(a, b) == Frac(a.num * b.den, a.den * b.num)
FracSub(a, b) == Frac(a.num * b.den - b.num * a.den, a.den * b.den)
FracMul(a, b) == Frac(a.num * b.num, a.den * b.den)

\* the empty dict
EmptyDict == [k \in {} |-> 0]

\* dict[key] = value
DictSet(dict, key, value) == (key :> value) @@ dict

fail_types ==
    <<"parsing", "resolution", "lark_exception", "undefined_action_verb",
      "undefined_action", "undefined_repr_str", "undefined_type", "not_room_type",
      "no_exit_to", "multiple_exits_to", "entity_not_accessible",
      "multiple_entity_ambiguity", "pre_state_mismatch">>

\* the scan starting from the turn-level scores a previous run left behind
ScanInit_keeping_logged ==
    [raised |-> "", adventure_info |-> EmptyDict, turn_scores |-> <<>>,
     turn_fails |-> <<>>, invalid_format |-> "", turn_limit_loss |-> FALSE,
     successfully_finished |-> FALSE, final_goals_achieved |-> {},
     turn_score |-> EmptyDict, turn_fail |-> EmptyDict, logged |-> scores.turn]

\* the state compute_scores carries through its loop over the turns: all of it
\* is local to the call
ScanInit ==
    [raised |-> "", adventure_info |-> EmptyDict, turn_scores |-> <<>>,
     turn_fails |-> <<>>, invalid_format |-> "", turn_limit_loss |-> FALSE,
     successfully_finished |-> FALSE, final_goals_achieved |-> {},
     turn_score |-> EmptyDict, turn_fail |-> EmptyDict, logged |-> <<>>]

\* the body of "for event in turn"
ScanEvent(st, event) ==
    LET action == event.action
        type == action.type
    IN IF type = "adventure_info" THEN [st EXCEPT !.adventure_info = action.content]
       ELSE IF type = "invalid_format" THEN [st EXCEPT !.invalid_format = action.content]
       ELSE IF type = "action_fail"
       THEN [st EXCEPT !.turn_fail =
                DictSet(DictSet(@, action.content.phase, 1), action.content.fail_type, 1)]
       ELSE IF type = "turn_limit_reached" THEN [st EXCEPT !.turn_limit_loss = TRUE]
       ELSE IF type = "goal_status"
       THEN [st EXCEPT !.turn_score =
                DictSet(@, "goal_score", action.content.turn_goal_score)]
       ELSE IF type = "game_result"
       THEN [st EXCEPT
                !.successfully_finished = action.content.game_successfully_finished,
                !.final_goals_achieved = action.content.goal_states_achieved]
       ELSE st

RECURSIVE ScanEvents(_, _, _)
ScanEvents(st, turn, i) ==
    IF i > Len(turn) THEN st ELSE ScanEvents(ScanEvent(st, turn[i]), turn, i + 1)

\* the turn-level scores logged for one turn, up to the failure types
TurnLevelScores(st, turn_score_) ==
    [name \in {METRIC_REQUEST_COUNT, METRIC_REQUEST_COUNT_PARSED,
               METRIC_REQUEST_COUNT_VIOLATED, "command_tag_missing",
               "next_actions_missing", "action_parsing_fail", "action_resolution_fail"}
              \cup {fail_types[k] : k \in 3..Len(fail_types)} |->
        IF name = METRIC_REQUEST_COUNT THEN Num(turn_score_["request_count"])
        ELSE IF name = METRIC_REQUEST_COUNT_PARSED
        THEN Num(turn_score_["parsed_request_count"])
        ELSE IF name = METRIC_REQUEST_COUNT_VIOLATED
        THEN Num(turn_score_["violated_request_count"])
        ELSE IF name = "command_tag_missing"
        THEN Num(IF st.invalid_format = "command_tag_missing" THEN 1 ELSE 0)
        ELSE IF name = "next_actions_missing"
        THEN Num(IF st.invalid_format = "next_actions_missing" THEN 1 ELSE 0)
        ELSE IF name = "action_parsing_fail" THEN Num(st.turn_fail["parsing"])
        ELSE IF name = "action_resolution_fail" THEN Num(st.turn_fail["resolution"])
        ELSE Num(st.turn_fail[name])]

\* one iteration of the turn loop that counts every request as parsed
ScanTurn_always_parsed(st0, turn) ==
    LET fresh == [st0 EXCEPT
                    !.turn_score = DictSet(EmptyDict, "request_count", 1),
                    !.turn_fail = [k \in {fail_types[j] : j \in 1..Len(fail_types)} |-> 0]]
        st == ScanEvents(fresh, turn, 1)
        violated == IF st.invalid_format # "" THEN 1 ELSE 0
        turn_score_ == DictSet(DictSet(st.turn_score, "violated_request_count", violated),
                               "parsed_request_count", 1)
        logged == TurnLevelScores(st, turn_score_)
    IN IF "goal_score" \notin DOMAIN turn_score_
       THEN [st EXCEPT !.raised = "KeyError", !.turn_score = turn_score_,
                       !.logged = Append(@, logged)]
       ELSE [st EXCEPT !.turn_score = turn_score_,
                       !.logged = Append(@, DictSet(logged, "goal_score",
                                                    Num(turn_score_["goal_score"]))),
                       !.turn_scores = Append(@, turn_score_),
                       !.turn_fails = Append(@, st.turn_fail)]

\* one iteration of the turn loop with turn_fail created once, before the loop
ScanTurn_fail_not_reset(st0, turn) ==
    LET fresh == [st0 EXCEPT
                    !.turn_score = DictSet(EmptyDict, "request_count", 1),
                    !.turn_fail =
                        IF @ = EmptyDict
                        THEN [k \in {fail_types[j] : j \in 1..Len(fail_types)} |-> 0]
                        ELSE @]
        st == ScanEvents(fresh, turn, 1)
        violated == IF st.invalid_format # "" THEN 1 ELSE 0
        turn_score_ == DictSet(DictSet(st.turn_score, "violated_request_count", violated),
                               "parsed_request_count", 1 - violated)
        logged == TurnLevelScores(st, turn_score_)
    IN IF "goal_score" \notin DOMAIN turn_score_
       THEN [st EXCEPT !.raised = "KeyError", !.turn_score = turn_score_,
                       !.logged = Append(@, logged)]
       ELSE [st EXCEPT !.turn_score = turn_score_,
                       !.logged = Append(@, DictSet(logged, "goal_score",
                                                    Num(turn_score_["goal_score"]))),
                       !.turn_scores = Append(@, turn_score_),
                       !.turn_fails = Append(@, st.turn_fail)]

\* one iteration of "for turn_idx, turn in enumerate(...)"; turn_score["goal_score"]
\* raises KeyError when the turn held no goal_status event
ScanTurn(st0, turn) ==
    LET fresh == [st0 EXCEPT
                    !.turn_score = DictSet(EmptyDict, "request_count", 1),
                    !.turn_fail = [k \in {fail_types[j] : j \in 1..Len(fail_types)} |-> 0]]
        st == ScanEvents(fresh, turn, 1)
        violated == IF st.invalid_format # "" THEN 1 ELSE 0
        turn_score_ == DictSet(DictSet(st.turn_score, "violated_request_count", violated),
                               "parsed_request_count", 1 - violated)
        logged == TurnLevelScores(st, turn_score_)
    IN IF "goal_score" \notin DOMAIN turn_score_
       THEN [st EXCEPT !.raised = "KeyError", !.turn_score = turn_score_,
                       !.logged = Append(@, logged)]
       ELSE [st EXCEPT !.turn_score = turn_score_,
                       !.logged = Append(@, DictSet(logged, "goal_score",
                                                    Num(turn_score_["goal_score"]))),
                       !.turn_scores = Append(@, turn_score_),
                       !.turn_fails = Append(@, st.turn_fail)]

RECURSIVE ScanTurns(_, _, _)
ScanTurns(st, all_turns, i) ==
    IF i > Len(all_turns) \/ st.raised # "" THEN st
    ELSE ScanTurns(ScanTurn(st, all_turns[i]), all_turns, i + 1)

\* the sum that leaves out the last turn
RECURSIVE SumOf_drop_last(_, _, _)
SumOf_drop_last(dicts, key, i) ==
    IF i >= Len(dicts) THEN 0 ELSE dicts[i][key] + SumOf_drop_last(dicts, key, i + 1)

\* sum([turn[key] for turn in dicts])
RECURSIVE SumOf(_, _, _)
SumOf(dicts, key, i) ==
    IF i > Len(dicts) THEN 0 ELSE dicts[i][key] + SumOf(dicts, key, i + 1)

\* what a run of compute_scores leaves behind: the exception it raised ("" if
\* none), the turn-level scores and the episode-level scores logged until then
ScoreResult(raised, turn_level, episode_level) ==
    [raised |-> raised, turn |-> turn_level, episode |-> episode_level]

\* compute_scores(episode_interactions)
compute_scores(episode_interactions) ==
    LET st == ScanTurns(ScanInit, episode_interactions.turns, 1)
        turn_scores == st.turn_scores
        turn_fails == st.turn_fails
        adventure_info == st.adventure_info
        violated_request_count == SumOf(turn_scores, "violated_request_count", 1)
        parsed_request_count == SumOf(turn_scores, "parsed_request_count", 1)
        request_count == SumOf(turn_scores, "request_count", 1)
        e_requests ==
            (METRIC_REQUEST_COUNT_VIOLATED :> Num(violated_request_count))
            @@ (METRIC_REQUEST_COUNT_PARSED :> Num(parsed_request_count))
            @@ (METRIC_REQUEST_COUNT :> Num(request_count))
        e_fails ==
            (METRIC_REQUEST_SUCCESS :> Frac(parsed_request_count, request_count))
            @@ ("action_parsing_fail" :> Num(SumOf(turn_fails, "parsing", 1)))
            @@ ("action_resolution_fail" :> Num(SumOf(turn_fails, "resolution", 1)))
            @@ [name \in {fail_types[k] : k \in 3..Len(fail_types)} |->
                    Num(SumOf(turn_fails, name, 1))]
            @@ ("turn_limit_loss" :> Num(IF st.turn_limit_loss THEN 1 ELSE 0))
            @@ e_requests
        turn_count == Len(turn_scores)
        optimal_turns == adventure_info["optimal_turns"]
        turns_over_par == turn_count - optimal_turns
        e_par ==
            ("turns_over_par" :>
                IF st.successfully_finished THEN Num(turns_over_par) ELSE NaN)
            @@ e_fails
        turn_range == adventure_info["max_turns"] - adventure_info["optimal_turns"]
        turn_ratio == FracSub(Num(1), Frac(turns_over_par, turn_range))
        e_ratio ==
            ("turn_ratio" :> IF st.successfully_finished THEN turn_ratio ELSE NaN)
            @@ e_par
        final_goal_score == Cardinality(st.final_goals_achieved)
        goal_count == adventure_info["goal_count"]
        achieved_ratio == Frac(final_goal_score, goal_count)
        e_goal == ("achieved_goal_ratio" :> achieved_ratio) @@ e_ratio
        full_rating == FracMul(achieved_ratio, turn_ratio)
        e_all ==
            (BENCH_SCORE :> IF st.successfully_finished THEN full_rating ELSE NaN)
            @@ (METRIC_ABORTED :> Num(IF st.invalid_format # "" THEN 1 ELSE 0))
            @@ (METRIC_SUCCESS :> Num(IF st.successfully_finished THEN 1 ELSE 0))
            @@ (METRIC_LOSE :> Num(IF st.successfully_finished THEN 0 ELSE 1))
            @@ e_goal
    IN IF st.raised # "" THEN ScoreResult(st.raised, st.logged, EmptyDict)
       ELSE IF request_count = 0
       THEN ScoreResult("ZeroDivisionError", st.logged, e_requests)
       ELSE IF "optimal_turns" \notin DOMAIN adventure_info
       THEN ScoreResult("KeyError", st.logged, e_fails)
       ELSE IF "max_turns" \notin DOMAIN adventure_info
       THEN ScoreResult("KeyError", st.logged, e_par)
       ELSE IF turn_range = 0
       THEN ScoreResult("ZeroDivisionError", st.logged, e_par)
       ELSE IF "goal_count" \notin DOMAIN adventure_info
       THEN ScoreResult("KeyError", st.logged, e_ratio)
       ELSE IF goal_count = 0
       THEN ScoreResult("ZeroDivisionError", st.logged, e_ratio)
       ELSE ScoreResult("", st.logged, e_all)

\* the scoring run over the interactions recorded for the finished episode
score_episode ==
    /\ pc = "done"
    /\ scores' = compute_scores(interactions)
    /\ pc' = "scored"
    /\ UNCHANGED <<game_instance, if_variant, goals_required, goals_achieved, turns,
                   success, invalid_format, finished, last_message, response,
                   interactions, current_turn, if_result, if_calls, players,
                   plan_history, exception, proceed_calls, backend_call>>

\* play: _on_before_game, the turn loop, _on_after_game (after setup)
play ==
    \/ on_setup
    \/ on_before_game
    \/ loop_check
    \/ prompt
    \/ validate_parse_and_add
    \/ on_after_turn
    \/ on_after_game

Next ==
    \/ play
    \/ score_episode

Spec == Init /\ [][Next]_vars

\* the episode is not suspended forever: the play loop is sequential, and every
\* call of the player and of the interpreter returns
FairSpec == Spec /\ WF_vars(play)

\* episodes started with any game instance, complete or not
ConfigNext ==
    \/ on_setup_incomplete
    \/ Next

ConfigSpec == Init /\ [][ConfigNext]_vars

----------------------------------------------------------------------------
(* The scorer run on recorded episodes read back from storage *)

\* the first turn may start with the adventure_info event
InfoEvents ==
    {<<>>} \cup {<<log_to_self("adventure_info", adventure_info_of(gi))>> :
                    gi \in {g \in GameInstances : g.variant = "basic"}}

\* a turn in which the interpreter was called
RegularTurns ==
    {if_interaction_log(fail, {}, score) : fail \in FailReports \cup {NoFail}, score \in {0, 1}}

\* the ways the last turn of a recorded episode ends
Endings == {"none", "finished", "limit", "command_tag_missing", "next_actions_missing"}

\* the last turn: what _does_game_proceed logged when the loop was left. The
\* turn of a rejected response holds the flag only, logged by _on_after_turn
\* and by the loop condition.
LastTurn(regular, ending) ==
    IF ending = "none" THEN regular
    ELSE IF ending = "finished"
    THEN regular \o <<log_to_self("adventure_finished", {})>>
    ELSE IF ending = "limit"
    THEN regular \o <<log_to_self("turn_limit_reached", MaxTurnsBound)>>
    ELSE <<log_to_self("invalid_format", ending), log_to_self("invalid_format", ending)>>

\* the last turn may end with the game_result event
ResultEvents ==
    {<<>>} \cup {<<log_to_self("game_result",
                      [goal_states_achieved |-> g, game_successfully_finished |-> f])>> :
                    g \in SUBSET GoalIds, f \in BOOLEAN}

\* turns with the events put in front of the first and behind the last turn
WithInfoAndResult(body, info, result) ==
    LET first == [body EXCEPT ![1] = info \o @]
    IN [first EXCEPT ![Len(first)] = @ \o result]

\* the example episode: eight turns, three of four goals, budget 10, par 6
ExampleLog(is_finished) ==
    WithInfoAndResult(
        [i \in 1..8 |-> if_interaction_log(NoFail, {}, 0)],
        <<log_to_self("adventure_info",
             [variant |-> "basic", max_turns |-> 10, optimal_turns |-> 6, goal_count |-> 4])>>,
        (IF is_finished THEN <<log_to_self("adventure_finished", {"A", "B", "C"})>>
         ELSE <<log_to_self("turn_limit_reached", 10)>>)
        \o <<log_to_self("game_result",
                [goal_states_achieved |-> {"A", "B", "C"},
                 game_successfully_finished |-> is_finished])>>)

\* a scorer object and the episode_interactions it is handed: no turns, the
\* example episode, or regular turns followed by a last turn
ScorerInit ==
    /\ pc = "done"
    /\ \/ interactions = [turns |-> <<>>, adventure_info |-> <<>>]
       \/ \E is_finished \in BOOLEAN :
            interactions = [turns |-> ExampleLog(is_finished), adventure_info |-> <<>>]
       \/ \E before \in SeqsUpTo(RegularTurns, MaxTurnsBound - 1),
             regular \in RegularTurns, ending \in Endings,
             info \in InfoEvents, result \in ResultEvents :
            interactions =
                [turns |-> WithInfoAndResult(Append(before, LastTurn(regular, ending)),
                                             info, result),
                 adventure_info |-> <<>>]
    /\ game_instance = NoInstance
    /\ if_variant = ""
    /\ goals_required = {}
    /\ goals_achieved = {}
    /\ turns = <<>>
    /\ success = TRUE
    /\ invalid_format = ""
    /\ finished = FALSE
    /\ last_message = NoMessage
    /\ response = <<>>
    /\ current_turn = 0
    /\ if_result = NoResult
    /\ if_calls = 0
    /\ scores = NoScores
    /\ players = <<>>
    /\ plan_history = <<>>
    /\ exception = ""
    /\ proceed_calls = 0
    /\ backend_call = NoCall

\* compute_scores called once more on the same episode_interactions
rescore_episode ==
    /\ pc = "scored"
    /\ scores' = compute_scores(interactions)
    /\ pc' = "rescored"
    /\ UNCHANGED <<game_instance, if_variant, goals_required, goals_achieved, turns,
                   success, invalid_format, finished, last_message, response,
                   interactions, current_turn, if_result, if_calls, players,
                   plan_history, exception, proceed_calls, backend_call>>

ScorerNext ==
    \/ score_episode
    \/ rescore_episode

ScorerSpec == ScorerInit /\ [][ScorerNext]_vars

----------------------------------------------------------------------------
(* The model backends behind the player: generate_response *)

\* check_context_limit(context_size, prompt_tokens, max_new_tokens), with
\* prompt_size = len(prompt_tokens)
check_context_limit(context_size, prompt_size, max_new_tokens) ==
    LET tokens_used == prompt_size + max_new_tokens
        tokens_left == context_size - tokens_used
        fits == tokens_used <= context_size
    IN [fits |-> fits, tokens_used |-> tokens_used, tokens_left |-> tokens_left,
        context_size |-> context_size]

\* the calls drawn: which backend, the model's context size and generation
\* budget, the size of the prompt, and whether the messages hold several
\* images in one turn and the model supports that
BackendCalls ==
    [backend : {"huggingface_multimodal", "llamacpp"},
     context_size : 1..MaxTokens, prompt_size : 0..MaxTokens,
     max_new_tokens : 0..MaxTokens, multiple_images : BOOLEAN,
     supports_multiple_images : BOOLEAN, outcome : {"pending"}, error : {NoError}]

\* HuggingfaceMultimodalModel.generate_response (of a model with a chat
\* template and a tokenizer): blank for unsupported multiple images, else
\* the context check, and only then the generation
generate_response_huggingface ==
    /\ pc = "generate"
    /\ backend_call.backend = "huggingface_multimodal"
    /\ LET context_check == check_context_limit(backend_call.context_size,
                                backend_call.prompt_size, backend_call.max_new_tokens)
       IN IF backend_call.multiple_images /\ ~backend_call.supports_multiple_images
          THEN /\ backend_call' = [backend_call EXCEPT !.outcome = "blank"]
               /\ exception' = ""
               /\ pc' = "returned"
          ELSE IF ~context_check.fits
          THEN /\ backend_call' =
                     [backend_call EXCEPT
                        !.outcome = "raised",
                        !.error = [tokens_used |-> context_check.tokens_used,
                                   tokens_left |-> context_check.tokens_left,
                                   context_size |-> context_check.context_size]]
               /\ exception' = "ContextExceededError"
               /\ pc' = "raised"
          ELSE /\ backend_call' = [backend_call EXCEPT !.outcome = "generated"]
               /\ exception' = ""
               /\ pc' = "returned"
    /\ UNCHANGED <<game_instance, if_variant, goals_required, goals_achieved, turns,
                   success, invalid_format, finished, last_message, response,
                   interactions, current_turn, if_result, if_calls, scores, players,
                   plan_history, proceed_calls>>

\* LlamaCPPLocalModel.generate_response: the prompt is formatted and the chat
\* completion is requested; the context check is not made
generate_response_llamacpp ==
    /\ pc = "generate"
    /\ backend_call.backend = "llamacpp"
    /\ backend_call' = [backend_call EXCEPT !.outcome = "generated"]
    /\ pc' = "returned"
    /\ UNCHANGED <<game_instance, if_variant, goals_required, goals_achieved, turns,
                   success, invalid_format, finished, last_message, response,
                   interactions, current_turn, if_result, if_calls, scores, players,
                   plan_history, exception, proceed_calls>>

\* a player's backend about to be called
BackendInit ==
    /\ pc = "generate"
    /\ backend_call \in BackendCalls
    /\ game_instance = NoInstance
    /\ if_variant = ""
    /\ goals_required = {}
    /\ goals_achieved = {}
    /\ turns = <<>>
    /\ success = TRUE
    /\ invalid_format = ""
    /\ finished = FALSE
    /\ last_message = NoMessage
    /\ response = <<>>
    /\ interactions = [turns |-> <<>>, adventure_info |-> <<>>]
    /\ current_turn = 0
    /\ if_result = NoResult
    /\ if_calls = 0
    /\ scores = NoScores
    /\ players = <<>>
    /\ plan_history = <<>>
    /\ exception = ""
    /\ proceed_calls = 0

BackendNext ==
    \/ generate_response_huggingface
    \/ generate_response_llamacpp

BackendSpec == BackendInit /\ [][BackendNext]_vars

----------------------------------------------------------------------------
(* Properties *)

\* the events of a given type in one turn's record
EventsOfType(turn, type) == SelectSeq(turn, LAMBDA e : e.action.type = type)

\* the record of the turn being played (the last one opened)
CurrentTurnRecord == interactions.turns[Len(interactions.turns)]

\* the event types that occur anywhere in the recorded turns
LoggedTypes ==
    UNION {{interactions.turns[i][j].action.type : j \in DOMAIN interactions.turns[i]} :
              i \in DOMAIN interactions.turns}

\* one of the three conditions under which the game does not proceed holds
StopCondition ==
    \/ invalid_format # ""
    \/ goals_achieved = goals_required
    \/ Len(turns) >= game_instance.max_turns

\* C1: whenever _does_game_proceed is evaluated (as the loop condition and at
\* the start of _on_after_turn) it returns false if the format flag is set,
\* if the achieved goals equal the required goals (and then finished is set),
\* or if the number of completed turns has reached max_turns, and true
\* otherwise. The loop condition's result shows in where the loop goes, the
\* result in _on_after_turn in whether the interpreter is called.
C1_ShouldContinue ==
    [][/\ pc = "loop_check" =>
            /\ (pc' = "prompt") = ~StopCondition
            /\ (pc' = "after_game") = StopCondition
       /\ pc = "after_turn" => ((if_calls' = if_calls + 1) = ~StopCondition)
       /\ (pc \in {"loop_check", "after_turn"} /\ invalid_format = ""
              /\ goals_achieved = goals_required) => finished'
       /\ (pc \in {"loop_check", "after_turn"} /\ ~(goals_achieved = goals_required))
              => (finished' = finished)]_vars

\* the loop ended on goal completion after the game had proceeded before
C1_Witness ==
    /\ pc = "after_game"
    /\ finished
    /\ invalid_format = ""
    /\ Len(turns) >= 1
    /\ Len(turns) < game_instance.max_turns

\* C2: once the format flag is set in a turn, that turn's record never holds
\* an action_fail or goal_status event, the interpreter is not called again,
\* the goal state and the list of completed turns stay as they are, the
\* player is not prompted again and no further turn is opened.
C2_NoInteractionAfterViolation ==
    /\ [](invalid_format # "" =>
            /\ Len(interactions.turns) = Len(turns) + 1
            /\ EventsOfType(CurrentTurnRecord, "action_fail") = <<>>
            /\ EventsOfType(CurrentTurnRecord, "goal_status") = <<>>
            /\ pc \notin {"prompt", "validate"})
    /\ [][invalid_format # "" =>
            /\ if_calls' = if_calls
            /\ if_result' = if_result
            /\ goals_achieved' = goals_achieved
            /\ turns' = turns
            /\ Len(interactions'.turns) = Len(interactions.turns)]_vars

\* the flag was set on the second turn and the episode has ended
C2_Witness ==
    /\ invalid_format # ""
    /\ pc = "done"
    /\ Len(turns) = 1
    /\ Len(interactions.turns) = 2

\* C3: once the format flag holds a violation category, no step clears it or
\* replaces it with another category.
C3_FirstViolationWins ==
    [][invalid_format # "" => invalid_format' = invalid_format]_vars

\* a flagged episode has run to its end with the category it was flagged with
C3_Witness ==
    /\ pc = "scored"
    /\ invalid_format = "next_actions_missing"

\* C4: a response is accepted (and added to the history as the assistant's
\* message) iff it begins with the command tag and, in the plan variant, also
\* contains the plan section tag; a rejected response sets the flag to
\* command_tag_missing if the command tag is missing, else to
\* next_actions_missing; an accepted one leaves the flag as it is.
C4_ValidateResponse ==
    [][pc = "validate" =>
        LET has_command_tag == response # <<>> /\ Head(response) = ">"
            has_plan_tag == NextActionsTag \in {response[i] : i \in DOMAIN response}
            accepted == has_command_tag /\ (if_variant = "plan" => has_plan_tag)
        IN /\ (last_message' = [role |-> "assistant", content |-> response]) = accepted
           /\ (last_message' = last_message) = ~accepted
           /\ accepted => invalid_format' = invalid_format
           /\ (~accepted /\ ~has_command_tag) => invalid_format' = "command_tag_missing"
           /\ (~accepted /\ has_command_tag) => invalid_format' = "next_actions_missing"]_vars

\* a response with both tags was accepted in the plan variant
C4_Witness ==
    /\ pc = "after_turn"
    /\ if_variant = "plan"
    /\ last_message = [role |-> "assistant", content |-> <<">", NextActionsTag>>]
    /\ invalid_format = ""

\* C5: the loop is left only with the format flag set, the goals complete or
\* the turn budget used up; and after a turn in which the interpreter
\* reported a failure the loop opens another turn unless the goals are now
\* complete or the turn budget is used up.
C5_FailureDoesNotEndEpisode ==
    /\ [](pc \in {"after_game", "done", "scored"} => StopCondition)
    /\ [][(/\ pc = "loop_check"
           /\ Len(interactions.turns) >= 1
           /\ EventsOfType(CurrentTurnRecord, "action_fail") # <<>>
           /\ goals_achieved # goals_required
           /\ Len(turns) < game_instance.max_turns)
          => (pc' = "prompt" /\ Len(interactions'.turns) = Len(interactions.turns) + 1)]_vars

\* the player is prompted again after a turn with an interpreter failure
C5_Witness ==
    /\ pc = "prompt"
    /\ Len(turns) = 1
    /\ if_result.fail # NoFail
    /\ EventsOfType(interactions.turns[1], "action_fail") # <<>>

\* the three event types that tell how the episode ended
OutcomeTypes == {"adventure_finished", "invalid_format", "turn_limit_reached"}

\* the scoring run ended without an exception and logged the episode score
Scored(name) == scores.raised = "" /\ name \in DOMAIN scores.episode

\* C6: in the recorded turns of every completed episode exactly one of the
\* event types adventure_finished, invalid_format and turn_limit_reached
\* occurs, and of the scorer's Success, Aborted and turn_limit_loss scores
\* exactly one is 1.
C6_ExactlyOneOutcome ==
    pc = "scored" =>
        /\ Cardinality(LoggedTypes \cap OutcomeTypes) = 1
        /\ \A name \in {METRIC_SUCCESS, METRIC_ABORTED, "turn_limit_loss"} : Scored(name)
        /\ Cardinality({name \in {METRIC_SUCCESS, METRIC_ABORTED, "turn_limit_loss"} :
                           scores.episode[name] = Num(1)}) = 1

\* C7: every episode comes to its end: no more than max_turns turns are
\* opened, and the play loop is left, _on_after_game runs and the state after
\* it, with a game_result event in the record, is reached.
C7_EpisodeTerminates ==
    /\ [](Len(interactions.turns) <= game_instance.max_turns)
    /\ [](Len(turns) <= game_instance.max_turns)
    /\ <>(pc = "done" /\ EventsOfType(CurrentTurnRecord, "game_result") # <<>>)

\* an episode that used its whole turn budget has ended
C7_Witness ==
    /\ pc = "done"
    /\ Len(turns) = game_instance.max_turns
    /\ game_instance.max_turns >= 2
    /\ EventsOfType(CurrentTurnRecord, "game_result") # <<>>

\* C8: each interpreter step replaces the goal state by the reported set, and
\* the turn's one goal_status event carries that set and, as turn_goal_score,
\* its size minus the size of the goal state before the step.
C8_GoalReplacementAndDelta ==
    [][if_calls' = if_calls + 1 =>
        LET status == EventsOfType(interactions'.turns[Len(interactions'.turns)],
                                   "goal_status")
        IN /\ goals_achieved' = if_result'.goals
           /\ Len(status) = 1
           /\ status[1].action.content.goal_states_achieved = if_result'.goals
           /\ status[1].action.content.turn_goal_score =
                 Cardinality(if_result'.goals) - Cardinality(goals_achieved)]_vars

\* the second interpreter step reported fewer goals than the first
C8_Witness ==
    /\ if_calls = 2
    /\ Cardinality(goals_achieved) = 1
    /\ Len(interactions.turns) = 2
    /\ EventsOfType(interactions.turns[1], "goal_status")[1]
           .action.content.goal_states_achieved = GoalIds
    /\ EventsOfType(interactions.turns[2], "goal_status")[1]
           .action.content.turn_goal_score = -1

\* the event types the game master records
RecordedTypes ==
    OutcomeTypes \cup {"action_fail", "goal_status", "game_result", "metadata"}

\* C9: a turn whose goal_status event carries a negative turn_goal_score also
\* carries an event that flags the inconsistency.
C9_NegativeDeltaFlagged ==
    \A i \in DOMAIN interactions.turns :
        (\E j \in DOMAIN interactions.turns[i] :
            /\ interactions.turns[i][j].action.type = "goal_status"
            /\ interactions.turns[i][j].action.content.turn_goal_score < 0)
        => \E j \in DOMAIN interactions.turns[i] :
              interactions.turns[i][j].action.type \notin RecordedTypes

\* C10: when the first response lacks the command tag the episode ends after
\* its first turn, and the scoring run completes with all the turn-level
\* scores of that turn, Aborted = 1, Success = 0 and every interpreter failure
\* count 0.
C10_AbortedFirstTurnScored ==
    (pc = "scored" /\ invalid_format = "command_tag_missing" /\ turns = <<>>) =>
        /\ Len(interactions.turns) = 1
        /\ scores.raised = ""
        /\ Len(scores.turn) = 1
        /\ "goal_score" \in DOMAIN scores.turn[1]
        /\ Scored(METRIC_ABORTED) /\ scores.episode[METRIC_ABORTED] = Num(1)
        /\ Scored(METRIC_SUCCESS) /\ scores.episode[METRIC_SUCCESS] = Num(0)
        /\ \A name \in {"action_parsing_fail", "action_resolution_fail"}
                       \cup {fail_types[k] : k \in 3..Len(fail_types)} :
              Scored(name) /\ scores.episode[name] = Num(0)

----------------------------------------------------------------------------
(* Properties of the scoring run *)

\* the recorded turns hold an adventure_info event (in the first turn)
HasInfo ==
    /\ interactions.turns # <<>>
    /\ EventsOfType(interactions.turns[1], "adventure_info") # <<>>

\* the recorded adventure_info
LoggedInfo == EventsOfType(interactions.turns[1], "adventure_info")[1].action.content

\* the recorded turns hold a game_result event (in the last turn)
HasResult ==
    /\ interactions.turns # <<>>
    /\ EventsOfType(CurrentTurnRecord, "game_result") # <<>>

\* the recorded game_result
LoggedResult == EventsOfType(CurrentTurnRecord, "game_result")[1].action.content

\* the record says the game was finished successfully
LoggedFinished == HasResult /\ LoggedResult.game_successfully_finished

\* a record with the episode's metadata in which every turn has its
\* goal_status event
FullyRecorded ==
    /\ HasInfo
    /\ \A i \in DOMAIN interactions.turns :
          EventsOfType(interactions.turns[i], "goal_status") # <<>>

\* the record is the example episode of eight turns
IsExample == HasInfo /\ Len(interactions.turns) = 8 /\ LoggedInfo.max_turns = 10

\* the par-based scores
ParScores == {"turns_over_par", "turn_ratio", BENCH_SCORE}

\* C11: for a record of an episode that was not finished successfully the
\* scores turns_over_par, turn_ratio and Main Score are all reported as nan,
\* whatever max_turns, optimal_turns and goal_count are.
C11_UnfinishedNotApplicable ==
    (pc = "scored" /\ FullyRecorded /\ ~LoggedFinished) =>
        \A name \in ParScores : Scored(name) /\ scores.episode[name] = NaN

\* C12: for a record of a finished episode turns_over_par is the number of
\* turns minus optimal_turns, turn_ratio is 1 - turns_over_par / (max_turns -
\* optimal_turns) and Main Score is achieved_goal_ratio * turn_ratio; for the
\* example episode these are 2, 1/2 and 3/8, with achieved_goal_ratio 3/4.
C12_FinishedParScores ==
    (pc = "scored" /\ FullyRecorded /\ LoggedFinished) =>
        LET over == Len(interactions.turns) - LoggedInfo.optimal_turns
            range == LoggedInfo.max_turns - LoggedInfo.optimal_turns
            goals == Cardinality(LoggedResult.goal_states_achieved)
            ratio == scores.episode["turn_ratio"]
            main == scores.episode[BENCH_SCORE]
        IN /\ \A name \in ParScores \cup {"achieved_goal_ratio"} : Scored(name)
           /\ scores.episode["turns_over_par"] = Num(over)
           /\ ratio.den > 0 /\ ratio.num * range = ratio.den * (range - over)
           /\ main.den > 0
           /\ main.num * (LoggedInfo.goal_count * range) = main.den * (goals * (range - over))
           /\ IsExample =>
                 /\ scores.episode["achieved_goal_ratio"] = [num |-> 3, den |-> 4]
                 /\ scores.episode["turns_over_par"] = Num(2)
                 /\ ratio = [num |-> 1, den |-> 2]
                 /\ main = [num |-> 3, den |-> 8]

\* C13: when max_turns equals optimal_turns the scoring run does not end in
\* the division by zero of the turn ratio.
C13_ZeroTurnRangeGuarded ==
    (pc = "scored" /\ FullyRecorded /\ LoggedInfo.max_turns = LoggedInfo.optimal_turns) =>
        scores.raised # "ZeroDivisionError"

\* C14: achieved_goal_ratio, the number of finally achieved goals over
\* goal_count, is reported for every record, however the episode ended; for
\* the unfinished example episode it is 3/4 and the par-based scores are nan.
C14_AchievedGoalRatioAlways ==
    (pc = "scored" /\ HasInfo) =>
        LET goals == IF HasResult THEN Cardinality(LoggedResult.goal_states_achieved) ELSE 0
            achieved == scores.episode["achieved_goal_ratio"]
        IN /\ Scored("achieved_goal_ratio")
           /\ achieved.den > 0
           /\ achieved.num * LoggedInfo.goal_count = achieved.den * goals
           /\ (IsExample /\ ~LoggedFinished) =>
                 /\ achieved = [num |-> 3, den |-> 4]
                 /\ \A name \in ParScores : Scored(name) /\ scores.episode[name] = NaN

\* C15: in the turn-level scores of every turn the request count is 1 and the
\* parsed and violated request counts add up to it, and the episode-level
\* request counts, once logged, add up the same way.
C15_RequestCountsAddUp ==
    pc = "scored" =>
        /\ \A i \in DOMAIN scores.turn :
              /\ scores.turn[i][METRIC_REQUEST_COUNT] = Num(1)
              /\ scores.turn[i][METRIC_REQUEST_COUNT_PARSED].num
                    + scores.turn[i][METRIC_REQUEST_COUNT_VIOLATED].num
                 = scores.turn[i][METRIC_REQUEST_COUNT].num
        /\ METRIC_REQUEST_COUNT \in DOMAIN scores.episode =>
              scores.episode[METRIC_REQUEST_COUNT_PARSED].num
                    + scores.episode[METRIC_REQUEST_COUNT_VIOLATED].num
                 = scores.episode[METRIC_REQUEST_COUNT].num

\* the episode-level request counts of a record of two turns were logged
C15_Witness ==
    /\ pc = "scored"
    /\ Len(scores.turn) = 2
    /\ METRIC_REQUEST_COUNT \in DOMAIN scores.episode
    /\ scores.episode[METRIC_REQUEST_COUNT] = Num(2)

\* C16: Aborted, Success and Lose are reported for every record: Aborted is 1
\* iff the record holds an invalid_format event and else 0, Success is 1 iff
\* game_result says the game was finished successfully, and Lose is
\* 1 - Success.
C16_AbortedSuccessLose ==
    (pc = "scored" /\ HasInfo) =>
        /\ \A name \in {METRIC_ABORTED, METRIC_SUCCESS, METRIC_LOSE} : Scored(name)
        /\ scores.episode[METRIC_ABORTED] =
              Num(IF "invalid_format" \in LoggedTypes THEN 1 ELSE 0)
        /\ scores.episode[METRIC_SUCCESS] = Num(IF LoggedFinished THEN 1 ELSE 0)
        /\ scores.episode[METRIC_LOSE] = Num(IF LoggedFinished THEN 0 ELSE 1)

\* the play loop was left because the completed turns reached max_turns, with
\* no format violation and the goals not complete
EndedByTurnLimit ==
    /\ invalid_format = ""
    /\ goals_achieved # goals_required
    /\ Len(turns) >= game_instance.max_turns

\* C17: for every played episode turn_limit_loss is reported, as 1 if the
\* episode ended by using up the turn budget and as 0 otherwise.
C17_TurnLimitLoss ==
    pc = "scored" =>
        /\ "turn_limit_loss" \in DOMAIN scores.episode
        /\ scores.episode["turn_limit_loss"] = Num(IF EndedByTurnLimit THEN 1 ELSE 0)

\* the names under which the interpreter failure scores are logged
FailScoreNames ==
    {"action_parsing_fail", "action_resolution_fail"}
    \cup {fail_types[k] : k \in 3..Len(fail_types)}

\* the sum of one turn-level score over the turns scored
RECURSIVE TurnScoreSum(_, _)
TurnScoreSum(name, i) ==
    IF i > Len(scores.turn) THEN 0 ELSE scores.turn[i][name].num + TurnScoreSum(name, i + 1)

\* C18: each episode-level interpreter failure score that is logged equals the
\* sum of the turn-level scores of the same name.
C18_FailTotalsAreSums ==
    pc = "scored" =>
        \A name \in FailScoreNames :
            name \in DOMAIN scores.episode =>
                scores.episode[name] = Num(TurnScoreSum(name, 1))

\* two turns with a parsing failure each were totalled
C18_Witness ==
    /\ pc = "scored"
    /\ "action_parsing_fail" \in DOMAIN scores.episode
    /\ scores.episode["action_parsing_fail"] = Num(2)
    /\ scores.episode["undefined_action_verb"] = Num(2)
    /\ scores.episode["action_resolution_fail"] = Num(0)

\* C19: a record without a game_result event is not scored like an episode
\* that was lost with no goal achieved (Success 0, Lose 1, achieved_goal_ratio
\* 0): the scoring run reports the missing record instead.
C19_MissingResultDetected ==
    (pc = "scored" /\ FullyRecorded /\ ~HasResult) =>
        ~(/\ scores.raised = ""
          /\ scores.episode[METRIC_SUCCESS] = Num(0)
          /\ scores.episode[METRIC_LOSE] = Num(1)
          /\ scores.episode["achieved_goal_ratio"] = Num(0))

\* C20: for a record without turns the scoring run neither ends in a division
\* by zero nor reports a Request Success Ratio of 0 or 1.
C20_NoTurnsIsDataError ==
    (pc = "scored" /\ interactions.turns = <<>>) =>
        /\ scores.raised # "ZeroDivisionError"
        /\ METRIC_REQUEST_SUCCESS \in DOMAIN scores.episode =>
              scores.episode[METRIC_REQUEST_SUCCESS] \notin {Num(0), Num(1)}

C23_SetupStateOrError ==
    /\ [][pc = "constructed" =>
            IF RequiredKeys \subseteq DOMAIN game_instance'
            THEN /\ pc' = "before_game"
                 /\ exception' = ""
                 /\ goals_achieved' = {}
                 /\ invalid_format' = ""
                 /\ ~finished'
                 /\ turns' = <<>>
                 /\ Len(players') = 1
            ELSE /\ pc' = "setup_failed"
                 /\ exception' # ""
                 /\ interactions'.turns = <<>>]_vars
    /\ [][pc = "setup_failed" => pc' = "setup_failed"]_vars

\* setup of a game instance without max_turns has failed
C23_Witness ==
    /\ pc = "setup_failed"
    /\ exception = "KeyError"
    /\ "max_turns" \notin DOMAIN game_instance
    /\ interactions.turns = <<>>

\* the response passes the format rules of its variant
WellFormed(utterance) ==
    /\ startswith(utterance, ">")
    /\ if_variant = "plan" => contains(utterance, NextActionsTag)

\* plan is the text that follows the first plan marker of the utterance, up to
\* the next marker or the end
FollowsMarker(utterance, plan) ==
    \E i \in 1..Len(utterance) :
        /\ utterance[i] = NextActionsTag
        /\ \A k \in 1..(i - 1) : utterance[k] # NextActionsTag
        /\ i + Len(plan) <= Len(utterance)
        /\ \A k \in 1..Len(plan) : plan[k] = utterance[i + k] /\ plan[k] # NextActionsTag
        /\ i + Len(plan) < Len(utterance) => utterance[i + Len(plan) + 1] = NextActionsTag

\* C24: a response that passed validation goes into the message history as
\* it is; in the plan variant the parse hook appends one entry, the text that
\* follows the plan marker, to the plan history, so that the history is as
\* long as the number of validated responses, and in the basic variant the
\* history stays as it was; a rejected response is not parsed, and the parse
\* hook never fails for want of the marker.
C24_ParseHook ==
    /\ [][pc = "validate" =>
            IF WellFormed(response)
            THEN /\ last_message' = [role |-> "assistant", content |-> response]
                 /\ pc' = "after_turn"
                 /\ IF if_variant = "plan"
                    THEN /\ Len(plan_history') = Len(plan_history) + 1
                         /\ SubSeq(plan_history', 1, Len(plan_history)) = plan_history
                         /\ FollowsMarker(response, plan_history'[Len(plan_history')])
                    ELSE plan_history' = plan_history
            ELSE /\ last_message' = last_message
                 /\ plan_history' = plan_history]_vars
    /\ [](exception # "IndexError")
    /\ [](if_variant = "plan" =>
            Len(plan_history) =
                Len(turns) + (IF pc = "after_turn" /\ invalid_format = "" THEN 1 ELSE 0))
    /\ [](if_variant # "plan" => plan_history = <<>>)

\* in the plan variant two responses were validated and parsed
C24_Witness ==
    /\ if_variant = "plan"
    /\ pc = "after_turn"
    /\ invalid_format = ""
    /\ Len(plan_history) = 2

\* C25: whenever the prompt tokens and the generation budget of a
\* generate_response call together exceed the model's context size, the call
\* ends in ContextExceededError, which carries tokens_used, tokens_left and
\* context_size, and no generation has been requested.
C25_ContextExceededIsRaised ==
    (/\ pc \in {"returned", "raised"}
     /\ ~(backend_call.multiple_images /\ ~backend_call.supports_multiple_images)
     /\ backend_call.prompt_size + backend_call.max_new_tokens > backend_call.context_size)
    => /\ exception = "ContextExceededError"
       /\ backend_call.outcome = "raised"
       /\ backend_call.error =
             [tokens_used |-> backend_call.prompt_size + backend_call.max_new_tokens,
              tokens_left |-> backend_call.context_size
                                - (backend_call.prompt_size + backend_call.max_new_tokens),
              context_size |-> backend_call.context_size]

\* C26: the recorded turns of every episode the game master played hold an
\* adventure_info event, whose max_turns, optimal_turns and goal_count are
\* those of the game instance, for the scorer to find in its scan of the
\* events.
C26_ScorerFindsAdventureInfo ==
    pc \in {"done", "scored"} =>
        \E i \in DOMAIN interactions.turns :
            \E j \in DOMAIN interactions.turns[i] :
                /\ interactions.turns[i][j].action.type = "adventure_info"
                /\ interactions.turns[i][j].action.content = adventure_info_of(game_instance)

\* the number of the named turn-level scores of turn i that are 1
OnesAmong(names, i) == Cardinality({name \in names : scores.turn[i][name] = Num(1)})

\* C27: every turn the game master records holds at most one action_fail
\* event, and among the turn-level scores of each turn at most one of the two
\* phase flags and at most one of the fail-type flags is 1, all of them being
\* 0 for a turn without an action_fail event.
C27_AtMostOneFailure ==
    /\ \A i \in DOMAIN interactions.turns :
          Len(EventsOfType(interactions.turns[i], "action_fail")) <= 1
    /\ pc = "scored" =>
          /\ Len(scores.turn) = Len(interactions.turns)
          /\ \A i \in DOMAIN scores.turn :
                /\ OnesAmong({"action_parsing_fail", "action_resolution_fail"}, i) <= 1
                /\ OnesAmong({fail_types[k] : k \in 3..Len(fail_types)}, i) <= 1
                /\ EventsOfType(interactions.turns[i], "action_fail") = <<>> =>
                      OnesAmong(FailScoreNames, i) = 0

\* a parsing failure in the first turn and none in the second were scored
C27_Witness ==
    /\ pc = "scored"
    /\ Len(scores.turn) = 2
    /\ EventsOfType(interactions.turns[1], "action_fail") # <<>>
    /\ EventsOfType(interactions.turns[2], "action_fail") = <<>>
    /\ scores.turn[1]["action_parsing_fail"] = Num(1)
    /\ scores.turn[1]["undefined_action_verb"] = Num(1)
    /\ scores.turn[2]["action_parsing_fail"] = Num(0)

\* C28 as claimed: _does_game_proceed is evaluated exactly once per turn
\* boundary, so that when a turn has been opened it has been evaluated as many
\* times as turns were opened.
C28_EvaluatedOncePerTurn ==
    pc = "prompt" => proceed_calls = Len(interactions.turns)

\* C28: _does_game_proceed is evaluated twice per played turn, once at the
\* start of _on_after_turn and once as the condition of the play loop, which
\* is also evaluated before the first turn: with n turns opened it has been
\* evaluated 2n - 1 times while turn n is played, 2n times when
\* _on_after_turn has run, and 2n + 1 times when the loop has been left.
C28_EvaluatedTwicePerTurn ==
    LET n == Len(interactions.turns)
    IN /\ pc \in {"prompt", "validate", "after_turn"} => proceed_calls = 2 * n - 1
       /\ pc = "loop_check" => proceed_calls = 2 * n
       /\ pc \in {"after_game", "done", "scored"} => proceed_calls = 2 * n + 1

\* the second turn has been opened after three evaluations
C28_Witness ==
    /\ pc = "prompt"
    /\ Len(interactions.turns) = 2
    /\ proceed_calls = 3

\* the number of game_result events in the recorded turns
RECURSIVE GameResultCount(_)
GameResultCount(ts) ==
    IF ts = <<>> THEN 0
    ELSE Len(EventsOfType(Head(ts), "game_result")) + GameResultCount(Tail(ts))

\* C29: no game_result event is logged while the episode runs; when it is over
\* exactly one has been logged, it is the last event of the record, and it
\* carries the goal states achieved after the last interpreter step together
\* with the finished flag.
C29_GameResultOnceAndLast ==
    /\ pc \in {"loop_check", "prompt", "validate", "after_turn", "after_game"} =>
          GameResultCount(interactions.turns) = 0
    /\ pc \in {"done", "scored"} =>
          LET last == CurrentTurnRecord[Len(CurrentTurnRecord)]
          IN /\ GameResultCount(interactions.turns) = 1
             /\ last.action.type = "game_result"
             /\ last.action.content.goal_states_achieved = goals_achieved
             /\ if_calls > 0 =>
                   last.action.content.goal_states_achieved = if_result.goals
             /\ last.action.content.game_successfully_finished = finished

\* an episode of two turns is over with some but not all goals achieved
C29_Witness ==
    /\ pc = "done"
    /\ Len(interactions.turns) = 2
    /\ if_calls = 2
    /\ goals_achieved # {}
    /\ goals_achieved # goals_required
    /\ ~finished
    /\ CurrentTurnRecord[Len(CurrentTurnRecord)].action.type = "game_result"

\* C30: a step that only evaluates _does_game_proceed (the loop condition, or
\* _on_after_turn when the game does not proceed) leaves the goal state, the
\* format flag and the completed turns as they were, and the evaluation that
\* follows it returns the same result and would log the same event.
C30_RepeatedEvaluationHarmless ==
    [][(pc = "loop_check" \/ (pc = "after_turn" /\ ~does_game_proceed.ret)) =>
          /\ (does_game_proceed.ret)' = does_game_proceed.ret
          /\ (does_game_proceed.log)' = does_game_proceed.log
          /\ goals_achieved' = goals_achieved
          /\ invalid_format' = invalid_format
          /\ turns' = turns]_vars

\* after a rejected response _does_game_proceed has been evaluated by
\* _on_after_turn and again by the loop: the turn holds two invalid_format
\* events and finished was not set
C30_Witness ==
    /\ pc = "after_game"
    /\ invalid_format # ""
    /\ ~finished
    /\ Len(EventsOfType(CurrentTurnRecord, "invalid_format")) = 2
    /\ proceed_calls = 2 * Len(interactions.turns) + 1

\* the game_result event of a finished log (its last event)
GameResult == CurrentTurnRecord[Len(CurrentTurnRecord)].action.content

\* C31: self.finished is never true while the format flag is set, and in every
\* finished log game_successfully_finished is true exactly if the reported
\* final goal state equals the required goals.
C31_FinishedIffGoalsReached ==
    /\ finished => invalid_format = ""
    /\ pc \in {"done", "scored"} =>
          /\ GameResult.game_successfully_finished
                <=> (GameResult.goal_states_achieved = goals_required)
          /\ invalid_format # "" => ~GameResult.game_successfully_finished

\* a log reporting success with the required goals, and no format flag
C31_Witness ==
    /\ pc = "done"
    /\ GameResult.game_successfully_finished
    /\ GameResult.goal_states_achieved = goals_required
    /\ Len(interactions.turns) = 2
    /\ invalid_format = ""

\* the goals were completed by the interpreter step of the turn that used up
\* the turn budget
GoalsReachedOnLastTurn ==
    /\ invalid_format = ""
    /\ goals_achieved = goals_required
    /\ Len(turns) = game_instance.max_turns

\* C32: an episode whose goals are completed on the turn that brings the
\* completed turns to max_turns ends as finished: adventure_finished is
\* logged, turn_limit_reached is not, and the scorer reports Success 1 and
\* turn_limit_loss 0.
C32_LastTurnGoalIsSuccess ==
    (pc = "scored" /\ GoalsReachedOnLastTurn) =>
        /\ "adventure_finished" \in LoggedTypes
        /\ "turn_limit_reached" \notin LoggedTypes
        /\ GameResult.game_successfully_finished
        /\ "turn_limit_loss" \in DOMAIN scores.episode
        /\ scores.episode["turn_limit_loss"] = Num(0)
        /\ METRIC_SUCCESS \in DOMAIN scores.episode
        /\ scores.episode[METRIC_SUCCESS] = Num(1)

\* the sum of turn_goal_score over the goal_status events of a sequence of
\* events
RECURSIVE GoalScoreSum(_)
GoalScoreSum(events) ==
    IF events = <<>> THEN 0
    ELSE (IF Head(events).action.type = "goal_status"
          THEN Head(events).action.content.turn_goal_score ELSE 0)
         + GoalScoreSum(Tail(events))

\* the sum of turn_goal_score over the goal_status events of all turns
RECURSIVE LoggedGoalScore(_)
LoggedGoalScore(ts) ==
    IF ts = <<>> THEN 0 ELSE GoalScoreSum(Head(ts)) + LoggedGoalScore(Tail(ts))

\* C33: the turn_goal_score values logged so far add up to the size of the
\* goal state, and in a finished log to the size of the goal state reported in
\* game_result.
C33_GoalDeltasAddUp ==
    /\ pc \in {"loop_check", "prompt", "validate", "after_turn", "after_game",
               "done", "scored"} =>
          LoggedGoalScore(interactions.turns) = Cardinality(goals_achieved)
    /\ pc \in {"done", "scored"} =>
          LoggedGoalScore(interactions.turns)
            = Cardinality(GameResult.goal_states_achieved)

\* a finished log of two turns in which a goal was gained and lost again
C33_Witness ==
    /\ pc = "done"
    /\ Len(interactions.turns) = 2
    /\ GoalScoreSum(interactions.turns[1]) = 2
    /\ GoalScoreSum(interactions.turns[2]) = -1
    /\ Cardinality(GameResult.goal_states_achieved) = 1

\* the completed turns, the interpreter calls and the turns opened in the
\* record never exceed max_turns
TurnsWithinBudget ==
    /\ Len(turns) <= game_instance.max_turns
    /\ if_calls <= game_instance.max_turns
    /\ Len(interactions.turns) <= game_instance.max_turns

\* C34: the completed turns and the interpreter calls never exceed max_turns,
\* and for every finished episode with max_turns > optimal_turns the scorer's
\* turns_over_par is at most max_turns - optimal_turns and its turn_ratio and
\* Main Score are not negative.
C34_ScoresNeverNegative ==
    /\ TurnsWithinBudget
    /\ (pc = "scored" /\ finished
          /\ game_instance.max_turns > game_instance.optimal_turns) =>
          /\ \A name \in ParScores : name \in DOMAIN scores.episode
          /\ scores.episode["turns_over_par"].den = 1
          /\ scores.episode["turns_over_par"].num
                <= game_instance.max_turns - game_instance.optimal_turns
          /\ scores.episode["turn_ratio"].den > 0
          /\ scores.episode["turn_ratio"].num >= 0
          /\ scores.episode[BENCH_SCORE].den > 0
          /\ scores.episode[BENCH_SCORE].num >= 0

\* the final goal state reported in game_result has goal_count elements
AllGoalsReported ==
    Cardinality(GameResult.goal_states_achieved) = interactions.adventure_info.goal_count

\* C35: for every episode that was finished successfully the final goal state
\* has goal_count elements, the scorer's achieved_goal_ratio is 1 and its Main
\* Score equals its turn_ratio.
C35_FinishedRatioIsOne ==
    (pc = "scored" /\ finished) =>
        /\ AllGoalsReported
        /\ "achieved_goal_ratio" \in DOMAIN scores.episode
        /\ scores.episode["achieved_goal_ratio"] = Num(1)
        /\ {"turn_ratio", BENCH_SCORE} \subseteq DOMAIN scores.episode
        /\ scores.episode[BENCH_SCORE] = scores.episode["turn_ratio"]
====
